---- MODULE Spec2Model ----
(***************************************************************************)
(* Model of the persistent session store of the councillor bot             *)
(* (src/src/kinda_db.rs): the in-memory table of chat states behind one    *)
(* tokio RwLock, the index file db.txt and the per-chat transcript files   *)
(* <chat_id>.txt, together with the load procedure KindaDb::new.           *)
(*                                                                         *)
(* Files are modelled by their content. db.txt is the set of its lines,    *)
(* each line the pair <<chat_id, marker>> that "{} {}\n" prints and        *)
(* split_whitespace/parse reads back. A transcript file is the sequence of *)
(* its characters, so that the framing with "***\n" is split and parsed    *)
(* the way the code does it.                                               *)
(*                                                                         *)
(* Every access to the table and every file operation of a running store   *)
(* happens while the caller holds the RwLock, so each section of code that *)
(* holds the lock is one atomic step. register, confirm, reset_chat,       *)
(* delete, is_accepted and add_to_chat hold the lock from start to end and *)
(* are one step each. chat_prev takes the read lock, releases it, matches  *)
(* on its clone and then calls reset_chat, which takes the write lock: it  *)
(* is three steps, and pc records where each handler is between them.      *)
(***************************************************************************)
EXTENDS Integers, Sequences, FiniteSets, TLC

\* ------------------------------------------------------------------ bounds

\* Longest transcript an add_to_chat call is let to extend.
MaxMsgs == 2
\* Number of clock ticks a behaviour may take.
MaxTicks == 2

\* The activity window of chat_prev, in seconds.
ACTIVITY_WINDOW == 1800
\* First reading of now_sec() (any time after the epoch).
StartClock == ACTIVITY_WINDOW
\* The clock advances in steps of half a window, so that differences of
\* 0, 900, 1800 and 2700 seconds occur.
TickSec == ACTIVITY_WINDOW \div 2

\* ------------------------------------------------------------ input sets

Procs == {"h1"}
ChatIds == {1, 2}
\* The chats that send messages; the other chat is registered, confirmed and
\* deleted only.
TalkIds == {1}

\* Every variant of Role that serde can read back.
AllRoles == {"system", "user", "assistant", "tool", "function"}

\* Message texts: the empty text (a non-text message), a plain text and a
\* text that ends with the delimiter sequence.
TxtEmpty == << >>
TxtHi == <<"h", "i">>
TxtDelim == <<"a", "*", "*", "*", "\n">>
\* The messages of one process lifetime, and those that are also reloaded.
PlainMsgs == {<<"user", TxtEmpty>>, <<"assistant", TxtHi>>}
AllMsgs == PlainMsgs \cup {<<"user", TxtDelim>>}

\* ------------------------------------------------------------ chat states

\* The table holds one ChatState per chat id; an id without an entry in the
\* HashMap is Absent.
Absent == [tag |-> "Absent", la |-> 0, msgs |-> << >>]
Unconfirmed == [tag |-> "Unconfirmed", la |-> 0, msgs |-> << >>]
Confirmed(la, msgs) == [tag |-> "Confirmed", la |-> la, msgs |-> msgs]

\* str_to_msg: the request message built from a role and a text.
str_to_msg(role, msg) == <<role, msg>>

NoFile == [exists |-> FALSE, bytes |-> << >>]
File(bytes) == [exists |-> TRUE, bytes |-> bytes]
NoDb == [exists |-> FALSE, lines |-> {}]

\* --------------------------------------------------------- text handling

RoleChars(role) ==
  CASE role = "user" -> <<"u", "s", "e", "r">>
    [] role = "assistant" -> <<"a", "s", "s", "i", "s", "t", "a", "n", "t">>
    [] role = "system" -> <<"s", "y", "s", "t", "e", "m">>
    [] role = "tool" -> <<"t", "o", "o", "l">>
    [] role = "function" -> <<"f", "u", "n", "c", "t", "i", "o", "n">>

\* serde_json::to_string(&role): the lowercase name as a JSON string.
role_to_json(role) == <<"\"">> \o RoleChars(role) \o <<"\"">>

\* The delimiter "***\n".
Delim == <<"*", "*", "*", "\n">>

\* format!("{}***\n{}***\n", role_json, msg)
chunk(role, msg) == role_to_json(role) \o Delim \o msg \o Delim

IsPrefix(p, s) == Len(p) <= Len(s) /\ SubSeq(s, 1, Len(p)) = p

\* str::split(pat): the pieces between the leftmost non-overlapping matches
\* of pat, the empty pieces included.
RECURSIVE SplitFrom(_, _, _)
SplitFrom(s, pat, cur) ==
  IF s = << >> THEN <<cur>>
  ELSE IF IsPrefix(pat, s)
       THEN <<cur>> \o SplitFrom(SubSeq(s, Len(pat) + 1, Len(s)), pat, << >>)
       ELSE SplitFrom(Tail(s), pat, Append(cur, Head(s)))

split(s, pat) == SplitFrom(s, pat, << >>)

NonEmpty(frag) == frag # << >>

\* file.split("***\n").filter(|&s| !s.is_empty()).collect()
chat_state_vec(bytes) == SelectSeq(split(bytes, Delim), NonEmpty)

JsonWs == {" ", "\n", "\t", "\r"}

RECURSIVE TrimLeft(_)
TrimLeft(s) ==
  IF s # << >> /\ Head(s) \in JsonWs THEN TrimLeft(Tail(s)) ELSE s

RECURSIVE TrimRight(_)
TrimRight(s) ==
  IF s # << >> /\ s[Len(s)] \in JsonWs
  THEN TrimRight(SubSeq(s, 1, Len(s) - 1)) ELSE s

\* serde_json::from_str::<Role>: a JSON string naming a variant, white space
\* around it allowed; anything else is an error.
RoleParses(frag) == \E r \in AllRoles : TrimRight(TrimLeft(frag)) = role_to_json(r)
role_from_json(frag) ==
  CHOOSE r \in AllRoles : TrimRight(TrimLeft(frag)) = role_to_json(r)

\* chunks(2).map(...): ch[0] must parse as a role and ch[1] must exist, or
\* the load panics.
TranscriptLoads(bytes) ==
  LET v == chat_state_vec(bytes)
  IN /\ Len(v) % 2 = 0
     /\ \A k \in 1..Len(v) : k % 2 = 1 => RoleParses(v[k])

LoadTranscript(bytes) ==
  LET v == chat_state_vec(bytes)
  IN [k \in 1..(Len(v) \div 2) |->
        str_to_msg(role_from_json(v[2 * k - 1]), v[2 * k])]

\* ------------------------------------------------------------------ state

VARIABLES
  state,       \* the HashMap behind the RwLock: chat id -> ChatState
  db,          \* the index file db.txt
  files,       \* the transcript files <chat_id>.txt
  clock,       \* what now_sec() returns
  pc,          \* where each handler is in the call it is making
  cid,         \* the chat_id of a chat_prev call in progress
  curr_state,  \* chat_prev's clone of the entry it read
  seen,        \* history: what had been appended when chat_prev read the entry
  last,        \* history: the step taken last and what it returned
  registered,  \* history: the ids ever passed to register
  appended,    \* history: the messages passed to add_to_chat since the last reset_chat
  logged,      \* history: the messages written to the file since it was last removed
  staleMem,    \* history: the entry holds messages from before the last reset_chat
  staleFile    \* history: the file holds messages from before the last reset_chat

vars == <<state, db, files, clock, pc, cid, curr_state, seen, last,
          registered, appended, logged, staleMem, staleFile>>

\* The chat_id slot of a handler that has no chat_prev call in progress
\* (chat ids of real chats are not 0 in this model).
NoChat == 0

\* What a completed call leaves in last: the operation, its chat id, the
\* variant of the entry it found (for chat_prev, of its clone), the result
\* of is_accepted (acc), and for chat_prev its result (ret), whether it took
\* its first arm (live), the timestamp of its clone (la) and what had been
\* appended when it read the entry (exp).
Step(op, chat_id, was, acc, ret, live, la, exp) ==
  [op |-> op, id |-> chat_id, was |-> was.tag, acc |-> acc, ret |-> ret,
   live |-> live, la |-> la, exp |-> exp]

\* A call that is not chat_prev.
Done(op, chat_id, was, acc) == Step(op, chat_id, was, acc, << >>, FALSE, 0, << >>)

\* A confirm or reset_chat call: exp is what had been appended to the entry
\* it replaces.
Reset(op, chat_id, was, exp) == Step(op, chat_id, was, FALSE, << >>, FALSE, 0, exp)

\* A step that completes no call.
NoStep == Done("none", NoChat, Absent, FALSE)

\* ------------------------------------------------- the pieces of the code

\* An insert that keeps the entry the map already holds.
insert_if_vacant(st, chat_id, value) ==
  IF st[chat_id].tag = "Absent" THEN [st EXCEPT ![chat_id] = value] ELSE st

\* state.insert(chat_id, value)
insert(st, chat_id, value) == [st EXCEPT ![chat_id] = value]

\* A delete that leaves the entry in the map.
remove_nothing(st, chat_id) == st

\* A delete that empties the whole map.
remove_all(st, chat_id) == [i \in ChatIds |-> Absent]

\* state.remove(&chat_id)
remove(st, chat_id) == [st EXCEPT ![chat_id] = Absent]

\* A reset or delete that removes every transcript file of the directory.
remove_file_all(fs, chat_id) == [i \in ChatIds |-> NoFile]

\* A reset or delete that leaves the transcript file on disk.
remove_file_kept(fs, chat_id) == fs

\* fs::remove_file(chat_path), its error ignored
remove_file(fs, chat_id) == [fs EXCEPT ![chat_id] = NoFile]

\* OpenOptions::new().create(true).append(true) and write_all(chunk)
append_file(fs, chat_id, bytes) ==
  [fs EXCEPT ![chat_id] = File(@.bytes \o bytes)]

\* The marker save_state prints for an entry.
marker(value) == IF value.tag = "Unconfirmed" THEN 0 ELSE value.la

\* An index that lists the Confirmed entries only.
save_state_confirmed_only(st) ==
  [exists |-> TRUE,
   lines |-> {<<i, st[i].la>> : i \in {j \in ChatIds : st[j].tag = "Confirmed"}}]

\* save_state: db.txt rewritten in full, one line per entry of the map.
save_state(st) ==
  [exists |-> TRUE,
   lines |-> {<<i, marker(st[i])>> : i \in {j \in ChatIds : st[j].tag # "Absent"}}]

\* A window that is still open at exactly 1800 seconds.
in_window_inclusive(now, updated) == now - updated <= ACTIVITY_WINDOW

\* The guard of chat_prev's first arm.
in_window(now, updated) == now - updated < ACTIVITY_WINDOW

\* An is_accepted that takes a Confirmed entry without messages for one
\* that is not approved.
accepted_with_history(value) == value.tag = "Confirmed" /\ value.msgs # << >>

\* The match of is_accepted.
accepted(value) == value.tag = "Confirmed"

\* What reset_chat inserts.
reset_value(now) == Confirmed(now, << >>)

\* An add_to_chat that loses the timestamp of the entry.
added_value_epoch(conv_start, msgs, role, msg) ==
  Confirmed(0, Append(msgs, str_to_msg(role, msg)))

\* What add_to_chat inserts for a Confirmed entry.
added_value(conv_start, msgs, role, msg) ==
  Confirmed(conv_start, Append(msgs, str_to_msg(role, msg)))

\* ------------------------------------------------------------- KindaDb::new

\* The records of db.txt for which the load reads a transcript file.
LoadsFile(d, fs, line) == line[2] # 0 /\ fs[line[1]].exists

\* The load completes: no unwrap or index panics.
LoadOk(d, fs) ==
  \A line \in d.lines : LoadsFile(d, fs, line) => TranscriptLoads(fs[line[1]].bytes)

loaded_value(fs, line) ==
  IF line[2] = 0 THEN Unconfirmed
  ELSE Confirmed(line[2],
                 IF fs[line[1]].exists THEN LoadTranscript(fs[line[1]].bytes)
                 ELSE << >>)

\* The table KindaDb::new builds.
Load(d, fs) ==
  [i \in ChatIds |->
     IF d.exists /\ \E line \in d.lines : line[1] = i
     THEN loaded_value(fs, CHOOSE line \in d.lines : line[1] = i)
     ELSE Absent]

\* --------------------------------------------------------------------- Init

Init ==
  /\ state = [i \in ChatIds |-> Absent]
  /\ db = NoDb
  /\ files = [i \in ChatIds |-> NoFile]
  /\ clock = StartClock
  /\ pc = [p \in Procs |-> "idle"]
  /\ cid = [p \in Procs |-> NoChat]
  /\ curr_state = [p \in Procs |-> Absent]
  /\ seen = [p \in Procs |-> << >>]
  /\ last = NoStep
  /\ registered = {}
  /\ appended = [i \in ChatIds |-> << >>]
  /\ logged = [i \in ChatIds |-> << >>]
  /\ staleMem = [i \in ChatIds |-> FALSE]
  /\ staleFile = [i \in ChatIds |-> FALSE]

\* ------------------------------------------------------------ the handlers
\* Every access to the table and to the files is made under the RwLock, so a
\* section of code that holds the lock is one step. register, confirm,
\* reset_chat, delete, add_to_chat and is_accepted hold it from start to end
\* and may be called by any handler at any time. chat_prev holds the read lock
\* for its read only and takes the write lock again for the reset: the
\* handlers in Procs are those inside a chat_prev call.

\* The process is up: the handlers run.
Up == \A p \in Procs : pc[p] # "down"

\* A chat_prev call returns: the handler holds nothing of it any more.
Return(p) ==
  /\ pc' = [pc EXCEPT ![p] = "idle"]
  /\ cid' = [cid EXCEPT ![p] = NoChat]
  /\ curr_state' = [curr_state EXCEPT ![p] = Absent]
  /\ seen' = [seen EXCEPT ![p] = << >>]

\* register: insert Unconfirmed, save the index. The transcript file is not
\* touched.
RegisterBody(chat_id) ==
  /\ Up
  /\ state' = insert(state, chat_id, Unconfirmed)
  /\ db' = save_state(state')
  /\ last' = Done("register", chat_id, state[chat_id], FALSE)
  /\ staleMem' = [staleMem EXCEPT ![chat_id] = FALSE]
  /\ UNCHANGED <<files, clock, appended, logged, staleFile>>

register(chat_id) ==
  /\ RegisterBody(chat_id)
  /\ UNCHANGED <<pc, cid, curr_state, seen>>

\* The body of reset_chat: remove the transcript file, insert
\* Confirmed(now, []), save the index.
ResetBody(chat_id) ==
  /\ Up
  /\ files' = remove_file(files, chat_id)
  /\ state' = insert(state, chat_id, reset_value(clock))
  /\ db' = save_state(state')
  /\ appended' = [appended EXCEPT ![chat_id] = << >>]
  /\ logged' = [logged EXCEPT ![chat_id] =
                  IF files'[chat_id].exists THEN @ ELSE << >>]
  /\ staleMem' = [staleMem EXCEPT ![chat_id] = state'[chat_id].msgs # << >>]
  /\ staleFile' = [staleFile EXCEPT ![chat_id] = files'[chat_id].exists]
  /\ UNCHANGED <<clock, registered>>

\* confirm is reset_chat.
confirm(chat_id) ==
  /\ ResetBody(chat_id)
  /\ last' = Reset("confirm", chat_id, state[chat_id], appended[chat_id])
  /\ UNCHANGED <<pc, cid, curr_state, seen>>

reset_chat(chat_id) ==
  /\ ResetBody(chat_id)
  /\ last' = Reset("reset_chat", chat_id, state[chat_id], appended[chat_id])
  /\ UNCHANGED <<pc, cid, curr_state, seen>>

\* delete: remove the entry, remove the transcript file, save the index.
DeleteBody(chat_id) ==
  /\ Up
  /\ state' = remove(state, chat_id)
  /\ files' = remove_file(files, chat_id)
  /\ db' = save_state(state')
  /\ last' = Done("delete", chat_id, state[chat_id], FALSE)
  /\ logged' = [logged EXCEPT ![chat_id] =
                  IF files'[chat_id].exists THEN @ ELSE << >>]
  /\ staleMem' = [staleMem EXCEPT ![chat_id] = FALSE]
  /\ staleFile' = [staleFile EXCEPT ![chat_id] = @ /\ files'[chat_id].exists]
  /\ UNCHANGED <<clock, registered, appended>>

delete(chat_id) ==
  /\ DeleteBody(chat_id)
  /\ UNCHANGED <<pc, cid, curr_state, seen>>

\* is_accepted: one read under the read lock.
IsAcceptedBody(chat_id) ==
  /\ Up
  /\ last' = Done("is_accepted", chat_id, state[chat_id],
                  accepted(state[chat_id]))
  /\ UNCHANGED <<state, db, files, clock,
                 registered, appended, logged, staleMem, staleFile>>

is_accepted(chat_id) ==
  /\ IsAcceptedBody(chat_id)
  /\ UNCHANGED <<pc, cid, curr_state, seen>>

\* chat_prev, lines 68-72: clone the entry under the read lock and let the
\* lock go.
chat_prev_read(p, chat_id) ==
  /\ pc[p] = "idle"
  /\ pc' = [pc EXCEPT ![p] = "cp_match"]
  /\ cid' = [cid EXCEPT ![p] = chat_id]
  /\ curr_state' = [curr_state EXCEPT ![p] = state[chat_id]]
  /\ seen' = [seen EXCEPT ![p] = appended[chat_id]]
  /\ last' = NoStep
  /\ UNCHANGED <<state, db, files, clock,
                 registered, appended, logged, staleMem, staleFile>>

\* chat_prev, lines 74-81: the match on the clone, with no lock held. The
\* first arm returns the clone's messages, the third an empty vector; the
\* second goes on to reset_chat.
chat_prev_match(p) ==
  /\ pc[p] = "cp_match"
  /\ IF curr_state[p].tag = "Confirmed" /\ in_window(clock, curr_state[p].la)
     THEN /\ last' = Step("chat_prev", cid[p], curr_state[p], FALSE,
                          curr_state[p].msgs, TRUE, curr_state[p].la, seen[p])
          /\ Return(p)
     ELSE IF curr_state[p].tag = "Confirmed"
     THEN /\ last' = NoStep
          /\ pc' = [pc EXCEPT ![p] = "cp_reset"]
          /\ UNCHANGED <<cid, curr_state, seen>>
     ELSE /\ last' = Step("chat_prev", cid[p], curr_state[p], FALSE,
                          << >>, FALSE, curr_state[p].la, seen[p])
          /\ Return(p)
  /\ UNCHANGED <<state, db, files, clock,
                 registered, appended, logged, staleMem, staleFile>>

\* chat_prev, lines 77-78: the reset_chat it calls, then vec![].
chat_prev_reset(p) ==
  /\ pc[p] = "cp_reset"
  /\ ResetBody(cid[p])
  /\ last' = Step("ttl_reset", cid[p], state[cid[p]], FALSE, << >>, FALSE,
                  curr_state[p].la, seen[p])
  /\ Return(p)

\* new_chat (bot_flow.rs), line 145: is_accepted under the read lock; the
\* handler goes on to reset_chat only when it answered true.
new_chat_check(p, chat_id) ==
  /\ pc[p] = "idle"
  /\ IF accepted(state[chat_id])
     THEN /\ pc' = [pc EXCEPT ![p] = "nc_reset"]
          /\ cid' = [cid EXCEPT ![p] = chat_id]
          /\ last' = NoStep
     ELSE /\ last' = Done("new_chat_refused", chat_id, state[chat_id], FALSE)
          /\ UNCHANGED <<pc, cid>>
  /\ UNCHANGED <<state, db, files, clock, curr_state, seen,
                 registered, appended, logged, staleMem, staleFile>>

\* new_chat, line 150: the reset_chat it calls, on whatever entry the table
\* holds by then.
new_chat_reset(p) ==
  /\ pc[p] = "nc_reset"
  /\ ResetBody(cid[p])
  /\ last' = Reset("new_chat", cid[p], state[cid[p]], appended[cid[p]])
  /\ Return(p)

\* add_to_chat: for a Confirmed entry append the chunk to the file and the
\* message to the entry, keeping conv_start; in every case save the index.
\* (A call that finds no Confirmed entry comes before the next reset_chat,
\* which empties the history of appended messages: it is not kept there.)
AddBody(chat_id, role, msg) ==
  /\ Up
  /\ Len(state[chat_id].msgs) < MaxMsgs
  /\ IF state[chat_id].tag = "Confirmed"
     THEN /\ files' = append_file(files, chat_id, chunk(role, msg))
          /\ state' = insert(state, chat_id,
                             added_value(state[chat_id].la, state[chat_id].msgs,
                                         role, msg))
          /\ logged' = [logged EXCEPT ![chat_id] = Append(@, <<role, msg>>)]
          /\ appended' = [appended EXCEPT ![chat_id] = Append(@, <<role, msg>>)]
     ELSE UNCHANGED <<files, state, logged, appended>>
  /\ db' = save_state(state')
  /\ last' = Done("add_to_chat", chat_id, state[chat_id], FALSE)
  /\ UNCHANGED <<clock, registered, staleMem, staleFile>>

add_to_chat(chat_id, role, msg) ==
  /\ AddBody(chat_id, role, msg)
  /\ UNCHANGED <<pc, cid, curr_state, seen>>

\* Time passes.
Tick ==
  /\ clock < StartClock + MaxTicks * TickSec
  /\ clock' = clock + TickSec
  /\ last' = NoStep
  /\ UNCHANGED <<state, db, files, pc, cid, curr_state, seen,
                 registered, appended, logged, staleMem, staleFile>>

\* The process stops and starts again: KindaDb::new rebuilds the table from
\* db.txt and the transcript files, and the chat_prev calls in progress are
\* gone. When the load panics the process is down and no handler runs.
Restart ==
  /\ IF LoadOk(db, files)
     THEN /\ state' = Load(db, files)
          /\ pc' = [p \in Procs |-> "idle"]
     ELSE /\ state' = [i \in ChatIds |-> Absent]
          /\ pc' = [p \in Procs |-> "down"]
  /\ cid' = [p \in Procs |-> NoChat]
  /\ curr_state' = [p \in Procs |-> Absent]
  /\ seen' = [p \in Procs |-> << >>]
  /\ last' = Done("restart", NoChat, Absent, LoadOk(db, files))
  /\ staleMem' = [i \in ChatIds |-> staleFile[i] /\ state'[i].msgs # << >>]
  /\ UNCHANGED <<db, files, clock, registered, appended, logged, staleFile>>

\* ------------------------------------------------------ failing file calls
\* fs::write in save_state, and the open and write_all of add_to_chat, are
\* unwrapped: when the call fails the handler panics where it stands, with
\* the map as it has left it. Whether the panic ends the process or only the
\* handler's task is a matter of the build and of the dispatcher: both
\* happen.

\* What a failed fs::write can leave of db.txt: the old file, or a file
\* truncated and written in part.
write_fails(d, st) ==
  {d} \cup {[exists |-> TRUE, lines |-> part] :
              part \in (SUBSET save_state(st).lines) \ {save_state(st).lines}}

\* An operation has brought the map to st and the files to fs, and its
\* save_state fails.
SaveFails(chat_id, st, fs) ==
  /\ Up
  /\ files' = fs
  /\ db' \in write_fails(db, st)
  /\ \E aborts \in BOOLEAN :
       IF aborts
       THEN /\ state' = [i \in ChatIds |-> Absent]
            /\ pc' = [p \in Procs |-> "down"]
            /\ cid' = [p \in Procs |-> NoChat]
            /\ curr_state' = [p \in Procs |-> Absent]
            /\ seen' = [p \in Procs |-> << >>]
       ELSE /\ state' = st
            /\ UNCHANGED <<pc, cid, curr_state, seen>>
  /\ last' = Done("failed", chat_id, state[chat_id], FALSE)
  /\ appended' = [appended EXCEPT ![chat_id] = st[chat_id].msgs]
  /\ logged' = [logged EXCEPT ![chat_id] = st[chat_id].msgs]
  /\ UNCHANGED <<clock, registered, staleMem, staleFile>>

register_fails(chat_id) ==
  SaveFails(chat_id, insert(state, chat_id, Unconfirmed), files)

\* reset_chat, and confirm with it.
reset_chat_fails(chat_id) ==
  SaveFails(chat_id, insert(state, chat_id, reset_value(clock)),
            remove_file(files, chat_id))

delete_fails(chat_id) ==
  SaveFails(chat_id, remove(state, chat_id), remove_file(files, chat_id))

\* add_to_chat whose save_state fails, after the append and the insert when
\* the entry is Confirmed.
add_to_chat_fails(chat_id, role, msg) ==
  /\ Len(state[chat_id].msgs) < MaxMsgs
  /\ IF state[chat_id].tag = "Confirmed"
     THEN SaveFails(chat_id,
                    insert(state, chat_id,
                           added_value(state[chat_id].la, state[chat_id].msgs,
                                       role, msg)),
                    append_file(files, chat_id, chunk(role, msg)))
     ELSE SaveFails(chat_id, state, files)

\* add_to_chat whose open or write_all fails: the panic comes before the
\* insert, and the index is not written.
add_to_chat_append_fails(chat_id) ==
  /\ state[chat_id].tag = "Confirmed"
  /\ SaveFails(chat_id, state, files)
  /\ db' = db

\* ------------------------------------------------------------- the RwLock
\* The same operations with the lock of the table made explicit: a caller
\* asks for the lock, is granted it, runs the section that holds it and
\* lets it go when the guard is dropped. Who holds the lock follows from
\* where the callers are.

LockProcs == {"h1", "h2"}

\* The operations that take self.state.write() and those that take
\* self.state.read().
WriteOps == {"register", "confirm", "reset_chat", "delete", "add_to_chat"}
ReadOps == {"is_accepted", "chat_prev"}

\* A caller suspended in .write().await or .read().await of an operation,
\* and a caller that holds the guard. In chat_prev, "cp_reset" is the
\* caller about to take the write lock in reset_chat and "cp_hold" the
\* caller that holds it.
wait(op) == "wait_" \o op
hold(op) == "hold_" \o op

waits_write(at) == at \in {wait(op) : op \in WriteOps} \cup {"cp_reset"}
waits_read(at) == at \in {wait(op) : op \in ReadOps}

\* A chat_prev that keeps its read guard until it returns.
holds_read_to_return(at) ==
  at \in {hold(op) : op \in ReadOps} \cup {"cp_match", "cp_reset", "cp_hold"}

\* The read guard lives in is_accepted until it returns and in chat_prev
\* until the end of the block that clones the entry.
holds_read(at) == at \in {hold(op) : op \in ReadOps}

holds_write(at) == at \in {hold(op) : op \in WriteOps} \cup {"cp_hold"}

Readers == {p \in LockProcs : holds_read(pc[p])}
Writers == {p \in LockProcs : holds_write(pc[p])}

\* The calls to add_to_chat that have not returned yet.
Adding == {p \in LockProcs : pc[p] \in {wait("add_to_chat"), hold("add_to_chat")}}

\* A handler calls an operation and is suspended on the lock. (The length
\* of a transcript is bounded where the call is made.)
call(p, op, chat_id) ==
  /\ pc[p] = "idle"
  /\ op = "add_to_chat"
       => Len(state[chat_id].msgs) + Cardinality(Adding) < MaxMsgs
  /\ pc' = [pc EXCEPT ![p] = wait(op)]
  /\ cid' = [cid EXCEPT ![p] = chat_id]
  /\ last' = NoStep
  /\ UNCHANGED <<state, db, files, clock, curr_state, seen,
                 registered, appended, logged, staleMem, staleFile>>

\* The write lock is granted when nobody holds the lock.
write_lock(p) ==
  /\ waits_write(pc[p])
  /\ Readers = {} /\ Writers = {}
  /\ pc' = [pc EXCEPT ![p] =
              IF @ = "cp_reset" THEN "cp_hold"
              ELSE hold(CHOOSE op \in WriteOps : wait(op) = @)]
  /\ last' = NoStep
  /\ UNCHANGED <<state, db, files, clock, cid, curr_state, seen,
                 registered, appended, logged, staleMem, staleFile>>

\* The read lock is granted when no writer holds the lock.
read_lock(p) ==
  /\ waits_read(pc[p])
  /\ Writers = {}
  /\ pc' = [pc EXCEPT ![p] = hold(CHOOSE op \in ReadOps : wait(op) = @)]
  /\ last' = NoStep
  /\ UNCHANGED <<state, db, files, clock, cid, curr_state, seen,
                 registered, appended, logged, staleMem, staleFile>>

\* The sections that hold the lock; each ends with the guard dropped.
register_locked(p) ==
  /\ pc[p] = hold("register")
  /\ RegisterBody(cid[p])
  /\ UNCHANGED registered
  /\ Return(p)

confirm_locked(p) ==
  /\ pc[p] = hold("confirm")
  /\ ResetBody(cid[p])
  /\ last' = Reset("confirm", cid[p], state[cid[p]], appended[cid[p]])
  /\ Return(p)

reset_chat_locked(p) ==
  /\ pc[p] = hold("reset_chat")
  /\ ResetBody(cid[p])
  /\ last' = Reset("reset_chat", cid[p], state[cid[p]], appended[cid[p]])
  /\ Return(p)

delete_locked(p) ==
  /\ pc[p] = hold("delete")
  /\ DeleteBody(cid[p])
  /\ Return(p)

is_accepted_locked(p) ==
  /\ pc[p] = hold("is_accepted")
  /\ IsAcceptedBody(cid[p])
  /\ Return(p)

add_to_chat_locked(p) ==
  /\ pc[p] = hold("add_to_chat")
  /\ AddBody(cid[p], "user", TxtHi)
  /\ Return(p)

\* chat_prev, lines 69-72: the clone, and the read guard dropped at the end
\* of the block.
chat_prev_locked(p) ==
  /\ pc[p] = hold("chat_prev")
  /\ pc' = [pc EXCEPT ![p] = "cp_match"]
  /\ curr_state' = [curr_state EXCEPT ![p] = state[cid[p]]]
  /\ seen' = [seen EXCEPT ![p] = appended[cid[p]]]
  /\ last' = NoStep
  /\ UNCHANGED <<state, db, files, clock, cid,
                 registered, appended, logged, staleMem, staleFile>>

\* chat_prev, lines 77-78: reset_chat with the write lock held.
chat_prev_reset_locked(p) ==
  /\ pc[p] = "cp_hold"
  /\ ResetBody(cid[p])
  /\ last' = Step("ttl_reset", cid[p], state[cid[p]], FALSE, << >>, FALSE,
                  curr_state[p].la, seen[p])
  /\ Return(p)

\* A caller that needs no lock for its next step takes it.
Runs(p) ==
  \/ register_locked(p)
  \/ confirm_locked(p)
  \/ reset_chat_locked(p)
  \/ delete_locked(p)
  \/ is_accepted_locked(p)
  \/ add_to_chat_locked(p)
  \/ chat_prev_locked(p)
  \/ chat_prev_match(p)
  \/ chat_prev_reset_locked(p)

\* ------------------------------------------------------ the specifications

\* The history of registrations is kept, or not.
Registers(chat_id) == registered' = registered \cup {chat_id}

\* One process lifetime: the atomic calls of any number of handlers and one
\* chat_prev call at a time, on two chats, one of which sends messages.
Next ==
  \/ \E chat_id \in ChatIds : register(chat_id) /\ UNCHANGED registered
  \/ \E chat_id \in ChatIds : confirm(chat_id)
  \/ \E chat_id \in ChatIds : reset_chat(chat_id)
  \/ \E chat_id \in ChatIds : delete(chat_id)
  \/ \E chat_id \in ChatIds : is_accepted(chat_id)
  \/ \E p \in Procs, chat_id \in TalkIds : chat_prev_read(p, chat_id)
  \/ \E p \in Procs : chat_prev_match(p)
  \/ \E p \in Procs : chat_prev_reset(p)
  \/ \E m \in PlainMsgs, chat_id \in TalkIds : add_to_chat(chat_id, m[1], m[2])
  \/ Tick

Spec == Init /\ [][Next]_vars

\* Process lifetimes one after the other, with the history of registrations
\* kept and one message text.
NextLives ==
  \/ \E chat_id \in ChatIds : register(chat_id) /\ Registers(chat_id)
  \/ \E chat_id \in ChatIds : confirm(chat_id)
  \/ \E chat_id \in ChatIds : reset_chat(chat_id)
  \/ \E chat_id \in ChatIds : delete(chat_id)
  \/ \E chat_id \in ChatIds : is_accepted(chat_id)
  \/ \E p \in Procs, chat_id \in ChatIds : chat_prev_read(p, chat_id)
  \/ \E p \in Procs : chat_prev_match(p)
  \/ \E p \in Procs : chat_prev_reset(p)
  \/ \E chat_id \in TalkIds : add_to_chat(chat_id, "user", TxtHi)
  \/ Tick
  \/ Restart

SpecLives == Init /\ [][NextLives]_vars

\* Process lifetimes one after the other, with every message text; the
\* second chat is only registered.
NextRestart ==
  \/ \E chat_id \in ChatIds : register(chat_id) /\ UNCHANGED registered
  \/ \E chat_id \in TalkIds : confirm(chat_id)
  \/ \E chat_id \in TalkIds : delete(chat_id)
  \/ \E p \in Procs, chat_id \in TalkIds : chat_prev_read(p, chat_id)
  \/ \E p \in Procs : chat_prev_match(p)
  \/ \E p \in Procs : chat_prev_reset(p)
  \/ \E m \in AllMsgs, chat_id \in TalkIds : add_to_chat(chat_id, m[1], m[2])
  \/ Tick
  \/ Restart

SpecRestart == Init /\ [][NextRestart]_vars

\* The handlers of the bot on one chat: start registers, the admin's
\* callback confirms or deletes, chat_member deletes, chat_msg reads the
\* context and adds messages, new_chat resets. reset_chat is called by
\* new_chat only.
NextFlow ==
  \/ \E chat_id \in TalkIds : register(chat_id) /\ UNCHANGED registered
  \/ \E chat_id \in TalkIds : confirm(chat_id)
  \/ \E chat_id \in TalkIds : delete(chat_id)
  \/ \E chat_id \in TalkIds : is_accepted(chat_id)
  \/ \E p \in Procs, chat_id \in TalkIds : chat_prev_read(p, chat_id)
  \/ \E p \in Procs : chat_prev_match(p)
  \/ \E p \in Procs : chat_prev_reset(p)
  \/ \E p \in Procs, chat_id \in TalkIds : new_chat_check(p, chat_id)
  \/ \E p \in Procs : new_chat_reset(p)
  \/ \E chat_id \in TalkIds : add_to_chat(chat_id, "user", TxtHi)
  \/ Tick

SpecFlow == Init /\ [][NextFlow]_vars

\* Two handlers on one chat with the lock explicit. A caller that can run
\* does run, and the lock is granted fairly (tokio's RwLock queues its
\* waiters).
InitLocks ==
  /\ state = [i \in ChatIds |-> Absent]
  /\ db = NoDb
  /\ files = [i \in ChatIds |-> NoFile]
  /\ clock = StartClock
  /\ pc = [p \in LockProcs |-> "idle"]
  /\ cid = [p \in LockProcs |-> NoChat]
  /\ curr_state = [p \in LockProcs |-> Absent]
  /\ seen = [p \in LockProcs |-> << >>]
  /\ last = NoStep
  /\ registered = {}
  /\ appended = [i \in ChatIds |-> << >>]
  /\ logged = [i \in ChatIds |-> << >>]
  /\ staleMem = [i \in ChatIds |-> FALSE]
  /\ staleFile = [i \in ChatIds |-> FALSE]

NextLocks ==
  \/ \E p \in LockProcs, op \in WriteOps \cup ReadOps, chat_id \in TalkIds :
       call(p, op, chat_id)
  \/ \E p \in LockProcs : write_lock(p)
  \/ \E p \in LockProcs : read_lock(p)
  \/ \E p \in LockProcs : register_locked(p)
  \/ \E p \in LockProcs : confirm_locked(p)
  \/ \E p \in LockProcs : reset_chat_locked(p)
  \/ \E p \in LockProcs : delete_locked(p)
  \/ \E p \in LockProcs : is_accepted_locked(p)
  \/ \E p \in LockProcs : add_to_chat_locked(p)
  \/ \E p \in LockProcs : chat_prev_locked(p)
  \/ \E p \in LockProcs : chat_prev_match(p)
  \/ \E p \in LockProcs : chat_prev_reset_locked(p)
  \/ Tick

\* A caller is at one place at a time, so one condition per caller says
\* both: a step that needs no lock stays enabled until it is taken, and a
\* lock that is free again and again is granted.
LocksFair ==
  \A p \in LockProcs : SF_vars(Runs(p) \/ write_lock(p) \/ read_lock(p))

SpecLocks == InitLocks /\ [][NextLocks]_vars /\ LocksFair

\* One chat on a file system whose calls can fail.
NextFail ==
  \/ \E chat_id \in TalkIds : register(chat_id) /\ UNCHANGED registered
  \/ \E chat_id \in TalkIds : confirm(chat_id)
  \/ \E chat_id \in TalkIds : delete(chat_id)
  \/ \E chat_id \in TalkIds : is_accepted(chat_id)
  \/ \E chat_id \in TalkIds : add_to_chat(chat_id, "user", TxtHi)
  \/ \E chat_id \in TalkIds : register_fails(chat_id)
  \/ \E chat_id \in TalkIds : reset_chat_fails(chat_id)
  \/ \E chat_id \in TalkIds : delete_fails(chat_id)
  \/ \E chat_id \in TalkIds : add_to_chat_fails(chat_id, "user", TxtHi)
  \/ \E chat_id \in TalkIds : add_to_chat_append_fails(chat_id)
  \/ Tick
  \/ Restart

SpecFail == Init /\ [][NextFail]_vars

\* ------------------------------------------------------------- the claims

\* The lines of db.txt that name a chat.
LinesOf(chat_id) == {line \in db.lines : line[1] = chat_id}

\* C1 as stated: for an id never passed to register, or whose entry is
\* Unconfirmed, is_accepted returns false and chat_prev returns an empty
\* vector, whatever calls came before.
C1_NeverRegistered ==
  /\ (last.op = "is_accepted"
        /\ (last.id \notin registered \/ last.was = "Unconfirmed"))
       => last.acc = FALSE
  /\ (last.op = "chat_prev"
        /\ (last.id \notin registered \/ last.was = "Unconfirmed"))
       => last.ret = << >>

\* C2 as stated: whenever the process is up, the load completes on the
\* files as they are and rebuilds the table as it is, entry by entry.
C2_RoundTrip == Up => (LoadOk(db, files) /\ Load(db, files) = state)

\* C3 as stated: add_to_chat on a Confirmed entry leaves its timestamp, and
\* its marker in db.txt, at the time of the call.
C3_AddRefreshes ==
  (last.op = "add_to_chat" /\ last.was = "Confirmed")
    => /\ state[last.id].la = clock
       /\ LinesOf(last.id) = {<<last.id, clock>>}

\* C4 as stated: no other call takes effect between chat_prev's check of
\* the entry and the reset it performs: when chat_prev is about to reset,
\* the table still holds the Confirmed entry, of the same timestamp, that
\* it found expired.
C4_ChatPrevAtomic ==
  \A p \in Procs :
    pc[p] = "cp_reset"
      => /\ state[cid[p]].tag = "Confirmed"
         /\ state[cid[p]].la = curr_state[p].la

\* C5: the reset of chat_prev leaves the entry Confirmed with the time of
\* the reset, no messages and no transcript file, and returns an empty
\* vector; chat_prev returns messages only inside the window; and neither
\* the table nor a transcript file ever holds a message from before the
\* last reset, so that none comes back after later appends or a restart.
C5_TtlReset ==
  /\ last.op = "ttl_reset"
       => /\ state[last.id] = Confirmed(clock, << >>)
          /\ ~files[last.id].exists
          /\ LinesOf(last.id) = {<<last.id, clock>>}
          /\ last.ret = << >>
  /\ (last.op = "chat_prev" /\ last.was = "Confirmed")
       => clock - last.la < ACTIVITY_WINDOW
  /\ \A i \in ChatIds : ~staleMem[i] /\ ~staleFile[i]

\* C5's case: chat_prev has reset an entry that held messages when it read
\* it.
C5_Witness ==
  /\ last.op = "ttl_reset"
  /\ last.exp # << >>
  /\ state[last.id] = Confirmed(clock, << >>)

\* C6 as stated: chat_prev on a Confirmed entry inside its window returns
\* the messages passed to add_to_chat since the last reset_chat, oldest
\* first, as they were when it read the entry, and goes on to a reset only
\* when the window has elapsed.
C6_ReadsAppended ==
  /\ (last.op = "chat_prev" /\ last.was = "Confirmed")
       => (last.live /\ last.ret = last.exp)
  /\ \A p \in Procs :
       pc[p] = "cp_reset" => clock - curr_state[p].la >= ACTIVITY_WINDOW

\* C7: while the process is up, db.txt has exactly one line for each entry
\* of the table, with the marker 0 for an Unconfirmed entry and the
\* timestamp for a Confirmed one, and no other line.
C7_IndexSnapshot ==
  Up =>
    /\ \A i \in ChatIds :
         LinesOf(i) = CASE state[i].tag = "Absent" -> {}
                        [] state[i].tag = "Unconfirmed" -> {<<i, 0>>}
                        [] state[i].tag = "Confirmed" -> {<<i, state[i].la>>}
    /\ \A line \in db.lines : line[1] \in ChatIds

\* C7's case: the index lists an Unconfirmed and a Confirmed entry after a
\* message was added.
C7_Witness ==
  /\ last.op = "add_to_chat"
  /\ state[1].msgs # << >>
  /\ state[2] = Unconfirmed
  /\ Cardinality(db.lines) = 2

\* C8 as stated: a transcript file exists only for a Confirmed entry with a
\* non-empty transcript.
C8_LogOnlyWithHistory ==
  \A i \in ChatIds :
    files[i].exists => (state[i].tag = "Confirmed" /\ state[i].msgs # << >>)

\* C9 as stated: while the process is up, for a Confirmed entry the records
\* written to its transcript file since the file was last removed are its
\* messages, one by one, and there is no file when there are no messages.
C9_LogReconciles ==
  Up =>
    \A i \in ChatIds :
      state[i].tag = "Confirmed"
        => /\ logged[i] = state[i].msgs
           /\ files[i].exists <=> state[i].msgs # << >>

\* C10: delete leaves no entry, no approval, no line in db.txt and no
\* transcript file for the id.
C10_DeleteTotal ==
  last.op = "delete"
    => /\ state[last.id] = Absent
       /\ ~accepted(state[last.id])
       /\ LinesOf(last.id) = {}
       /\ ~files[last.id].exists

\* C10's case: delete has removed a Confirmed entry that had messages.
C10_Witness ==
  /\ last.op = "delete"
  /\ last.was = "Confirmed"
  /\ appended[last.id] # << >>
  /\ state[last.id] = Absent

\* C11: confirm leaves the entry Confirmed with the time of the call, no
\* messages and no transcript file, whatever it found; and a chat_prev that
\* reads an entry to which nothing was appended since returns an empty
\* vector, as no Confirmed entry of a running store holds a message or a
\* file from before its last reset.
C11_ConfirmClears ==
  /\ last.op = "confirm"
       => /\ state[last.id] = Confirmed(clock, << >>)
          /\ ~files[last.id].exists
          /\ LinesOf(last.id) = {<<last.id, clock>>}
  /\ (last.op \in {"chat_prev", "ttl_reset"} /\ last.exp = << >>)
       => last.ret = << >>
  /\ Up => \A i \in ChatIds :
             (state[i].tag = "Confirmed" /\ appended[i] = << >>)
               => (state[i].msgs = << >> /\ ~files[i].exists)

\* C11's case: confirm has replaced a Confirmed entry that held messages.
C11_Witness ==
  /\ last.op = "confirm"
  /\ last.was = "Confirmed"
  /\ last.exp # << >>
  /\ state[last.id] = Confirmed(clock, << >>)

\* C12: register leaves the entry Unconfirmed with the line "id 0" in
\* db.txt, whatever it found, never Confirmed; and a second register right
\* after it would leave the same table and the same db.txt.
C12_RegisterIdempotent ==
  last.op = "register"
    => /\ state[last.id] = Unconfirmed
       /\ LinesOf(last.id) = {<<last.id, 0>>}
       /\ db = save_state(state)
       /\ insert(state, last.id, Unconfirmed) = state
       /\ save_state(insert(state, last.id, Unconfirmed)) = db

\* C12's case: register was called on an entry that was already Unconfirmed,
\* while the other chat is Confirmed.
C12_Witness ==
  /\ last.op = "register"
  /\ last.was = "Unconfirmed"
  /\ state[last.id] = Unconfirmed
  /\ \E i \in ChatIds : state[i].tag = "Confirmed"

\* C13: reset_chat on a Confirmed entry leaves it Confirmed, and so
\* accepted, with no messages and no transcript file.
C13_ResetKeepsApproval ==
  (last.op = "reset_chat" /\ last.was = "Confirmed")
    => /\ state[last.id].tag = "Confirmed"
       /\ accepted(state[last.id])
       /\ state[last.id].msgs = << >>
       /\ ~files[last.id].exists

\* C13's case: reset_chat has emptied a Confirmed entry that held messages.
C13_Witness ==
  /\ last.op = "reset_chat"
  /\ last.was = "Confirmed"
  /\ last.exp # << >>
  /\ state[last.id].tag = "Confirmed"

\* C14 as stated: the reset of chat_prev and the reset of new_chat never
\* find an entry that is absent or Unconfirmed, so that only confirm turns
\* such an entry into a Confirmed one.
C14_OnlyConfirmGrants ==
  last.op \in {"ttl_reset", "new_chat"} => last.was = "Confirmed"

\* C15 as stated: every start of the process on the files the store wrote
\* completes its load (each transcript file it reads splits into an even
\* number of non-empty fragments whose odd ones parse as roles), and the
\* process is up.
C15_LoadNeverAborts == last.op = "restart" => (last.acc /\ Up)

\* The step completes a call that is to change nothing: is_accepted, a
\* chat_prev or add_to_chat that found no Confirmed entry, a delete that
\* found no entry.
NoOpCall ==
  \/ last'.op = "is_accepted"
  \/ last'.op \in {"chat_prev", "add_to_chat"} /\ last'.was # "Confirmed"
  \/ last'.op = "delete" /\ last'.was = "Absent"

\* C16: a call that is to change nothing leaves the table, the lines of
\* db.txt and every transcript file as they were.
C16_NoOpsChangeNothing ==
  [][NoOpCall => (state' = state /\ db'.lines = db.lines /\ files' = files)]_vars

\* C16's case: add_to_chat was called on an Unconfirmed entry while the
\* transcript file of an earlier approval is on disk.
C16_Witness ==
  /\ last.op = "add_to_chat"
  /\ last.was = "Unconfirmed"
  /\ state[last.id] = Unconfirmed
  /\ files[last.id].exists

\* C17: every call returns: a caller that is inside an operation is
\* eventually out of it.
C17_EveryCallReturns ==
  \A p \in LockProcs : (pc[p] # "idle") ~> (pc[p] = "idle")

\* C17's case: a chat_prev waits for the write lock of its reset while the
\* other caller holds the lock.
C17_Witness ==
  \E p, q \in LockProcs :
    /\ pc[p] = "cp_reset"
    /\ holds_write(pc[q]) \/ holds_read(pc[q])

\* C18: a step of a running store, whichever call it belongs to, leaves
\* the entry, the line of db.txt and the transcript file of every chat
\* other than the one the call was made with as they were.
C18_SessionIsolation ==
  [][last'.op # "restart"
       => \A j \in ChatIds \ {last'.id} :
            /\ state'[j] = state[j]
            /\ files'[j] = files[j]
            /\ {line \in db'.lines : line[1] = j} = LinesOf(j)]_vars

\* C18's case: delete has removed the Confirmed entry of one chat while
\* the other chat is Confirmed with messages and a transcript file.
C18_Witness ==
  /\ last.op = "delete"
  /\ last.was = "Confirmed"
  /\ \E j \in ChatIds \ {last.id} :
       /\ state[j].tag = "Confirmed"
       /\ state[j].msgs # << >>
       /\ files[j].exists

\* C19: the timestamp of a Confirmed entry is never later than the clock,
\* and no step that finds the entry Confirmed and leaves it Confirmed makes
\* the timestamp smaller.
C19_ActivityMonotone ==
  /\ [](\A i \in ChatIds : state[i].tag = "Confirmed" => state[i].la <= clock)
  /\ [][\A i \in ChatIds :
          (state[i].tag = "Confirmed" /\ state'[i].tag = "Confirmed")
            => state'[i].la >= state[i].la]_vars

\* C19's case: the reset of chat_prev has moved the timestamp of a Confirmed
\* entry forward.
C19_Witness ==
  /\ last.op = "ttl_reset"
  /\ last.was = "Confirmed"
  /\ state[last.id].tag = "Confirmed"
  /\ state[last.id].la > last.la

\* C20 as stated: when a file call of an operation fails and the process
\* goes on, the table is the one from before the call.
C20_NoPartialMutation ==
  [][(last'.op = "failed" /\ \A p \in Procs : pc'[p] # "down")
       => state' = state]_vars

====
